---- MODULE Spec2Model ----
(***************************************************************************)
(* The MySQL map storage of trillian (storage/mysql/map_storage.go): the   *)
(* map transaction (mapTreeTX), the factory (mySQLMapStorage) and the      *)
(* rows of MapHead, MapLeaf and Subtree they read and write.               *)
(*                                                                         *)
(* A database transaction reads from the read view InnoDB gives it at its  *)
(* first consistent read (REPEATABLE READ, the default of BeginTx(ctx,nil))*)
(* plus its own uncommitted rows; its rows reach the committed tables at   *)
(* COMMIT and are dropped at ROLLBACK.                                     *)
(***************************************************************************)
EXTENDS Integers, Sequences, FiniteSets, TLC

VARIABLES
    mapHead,    \* committed rows of MapHead: [tree, ts, rev]
    mapLeaf,    \* committed rows of MapLeaf: [tree, key, rev, data]
    subtree,    \* committed rows of Subtree: [tree, id, rev]
    tx,         \* the transaction object held in each caller slot
    last,       \* the last call made and what it returned
    calls       \* the call each goroutine has in progress on a transaction

vars == <<mapHead, mapLeaf, subtree, tx, last, calls>>

\* ---------------------------------------------------------------- bounds
MaxOps == 2         \* calls on one transaction that change it
MaxTs == 2          \* root timestamps a caller names: 1..MaxTs

Txs == {1, 2}
TreeIds == {1, 2}
KeyHashes == {1, 2}
Revisions == {0, 1}     \* the root revisions a caller names
Timestamps == 1..MaxTs

\* ---------------------------------------------------------------- errors
ErrNil == "nil"
ErrTreeNeedsInit == "ErrTreeNeedsInit"
ErrNoRows == "sql.ErrNoRows"
ErrBackend == "backend"
ErrDuplicate == "duplicate entry"
ErrUsage == "usage"
ErrCodec == "codec"
ErrNotPopulated == "mapTreeTX write revision not populated"

\* Where the backend fails during one call: nowhere, at PrepareContext, or at
\* the query/exec itself (connectivity, SQL failure, context cancellation).
Fails == {"none", "prepare", "exec"}

\* ---------------------------------------------------------------- codecs
\* A trillian.MapLeaf handed to Set: a nil pointer, or a message whose bytes
\* fields (0 stands for the empty byte string) are set or left at their default.
MapLeafValues ==
    {[isNil |-> TRUE, Index |-> 0, LeafValue |-> 0]} \cup
    {[isNil |-> FALSE, Index |-> 0, LeafValue |-> 0],
     [isNil |-> FALSE, Index |-> 1, LeafValue |-> 0],
     [isNil |-> FALSE, Index |-> 1, LeafValue |-> 7]}

\* proto.Marshal: fails on a nil message; a proto3 bytes field left empty is not
\* put on the wire, so a message with every field empty encodes to zero bytes.
protoMarshal(value) ==
    IF value.isNil
    THEN [err |-> TRUE, b |-> <<>>]
    ELSE [err |-> FALSE,
          b |-> (IF value.Index # 0 THEN <<<<1, value.Index>>>> ELSE <<>>) \o
                (IF value.LeafValue # 0 THEN <<<<3, value.LeafValue>>>> ELSE <<>>)]

\* The value of wire field f in b, 0 when the field is absent.
protoField(b, f) ==
    IF \E i \in 1..Len(b) : b[i][1] = f
    THEN b[CHOOSE i \in 1..Len(b) : b[i][1] = f][2]
    ELSE 0

protoUnmarshal(b) ==
    [isNil |-> FALSE, Index |-> protoField(b, 1), LeafValue |-> protoField(b, 3)]

\* unmarshalMapLeaf: rejects an empty payload, decodes it and overwrites Index.
unmarshalMapLeaf(marshaledLeaf, mapKeyHash) ==
    IF Len(marshaledLeaf) = 0
    THEN [err |-> TRUE, leaf |-> [isNil |-> TRUE, Index |-> 0, LeafValue |-> 0]]
    ELSE [err |-> FALSE,
          leaf |-> [protoUnmarshal(marshaledLeaf) EXCEPT !.Index = mapKeyHash]]

\* types.MapRootV1: the TLS encoding starts with the version, MAP_ROOT_FORMAT_V1.
MarshalBinary(r) == <<1, r.ts, r.rev>>

UnmarshalBinary(b) ==
    IF Len(b) = 3 /\ b[1] = 1
    THEN [err |-> FALSE, ts |-> b[2], rev |-> b[3]]
    ELSE [err |-> TRUE, ts |-> 0, rev |-> 0]

\* The SignedMapRoot payloads a caller hands to StoreSignedMapRoot.
MapRoots ==
    {MarshalBinary([ts |-> ts, rev |-> rev]) : ts \in Timestamps, rev \in Revisions}
        \cup {<<0>>}

\* The revisions a caller asks Get and GetTiles for.
ReadRevisions == {-1, 0, 1, 2}

\* signedMapRoot: the SignedMapRoot built from a row of MapHead.
signedMapRoot(row) == [MapRoot |-> MarshalBinary([ts |-> row.ts, rev |-> row.rev])]

\* ---------------------------------------------------------------- transactions
NoView == [has |-> FALSE, mapHead |-> {}, mapLeaf |-> {}, subtree |-> {}]

\* A caller slot holds no transaction yet ("none"), one that is open, one whose
\* database handle was released by Commit or Close ("done"), or nothing while
\* the database handle begin opened is still held ("leaked").
NilTx ==
    [st |-> "none", ro |-> FALSE, treeID |-> 0,
     readRevision |-> -1, writeRevision |-> -1,
     view |-> NoView, wHead |-> {}, wLeaf |-> {}, staged |-> {}, nops |-> 0]

\* beginTreeTx: a fresh database transaction for the tree; the write revision
\* slot starts at the "unset" sentinel.
beginTreeTx(treeID) ==
    [NilTx EXCEPT !.st = "open", !.treeID = treeID, !.writeRevision = -1]

\* The read view of a consistent read: the one the transaction already has,
\* or the committed tables as they stand when it makes its first read.
ReadView(x) ==
    IF x.view.has THEN x.view
    ELSE [has |-> TRUE, mapHead |-> mapHead, mapLeaf |-> mapLeaf, subtree |-> subtree]

VisibleHead(x) == ReadView(x).mapHead \cup x.wHead
VisibleLeaf(x) == ReadView(x).mapLeaf \cup x.wLeaf
VisibleSubtree(x) == ReadView(x).subtree

\* ---------------------------------------------------------------- queries
\* SELECT ... FROM MapHead WHERE TreeId=? ORDER BY MapHeadTimestamp DESC LIMIT 1:
\* the rows the query may return (any of those with the greatest timestamp).
selectLatestSignedMapRootSQL(rows, treeID) ==
    {r \in rows : r.tree = treeID /\
                  \A s \in rows : s.tree = treeID => s.ts <= r.ts}

\* SELECT ... FROM MapHead WHERE TreeId=? AND MapRevision=?
selectGetSignedMapRootSQL(rows, treeID, revision) ==
    {r \in rows : r.tree = treeID /\ r.rev = revision}

\* The join of Get: for each requested key the rows at its greatest revision
\* that is at most the requested one.
selectMapLeafSQL(rows, treeID, indexes, revision) ==
    {r \in rows : r.tree = treeID /\ r.key \in indexes /\ r.rev <= revision /\
                  \A s \in rows : (s.tree = treeID /\ s.key = r.key /\ s.rev <= revision)
                                      => s.rev <= r.rev}

NoRow == [tree |-> 0, ts |-> 0, rev |-> 0]

\* What QueryRow can hand to Scan: one of the rows, or none.
RowChoices(rows) == IF rows = {} THEN {NoRow} ELSE rows

Result(err, ret, x) == [err |-> err, ret |-> ret, tx |-> x]

\* ---------------------------------------------------------------- mapTreeTX
\* Each operation of the transaction x, with the place the backend fails at
\* (fail) and, for a single-row lookup, the row the query hands back (pick):
\* the error it returns, what it returns, and the transaction afterwards.

ReadRevision(x) == Result(ErrNil, {x.readRevision}, x)

\* WriteRevision without the check of the slot.
WriteRevisionUnchecked(x) == Result(ErrNil, {x.writeRevision}, x)

WriteRevision(x) ==
    IF x.writeRevision < 0
    THEN Result(ErrNotPopulated, {x.writeRevision}, x)
    ELSE Result(ErrNil, {x.writeRevision}, x)

\* Set returning the error of proto.Marshal.
SetMarshalError(x, keyHash, value, fail) ==
    LET flat == protoMarshal(value) IN
    IF flat.err THEN Result(ErrCodec, {}, x)
    ELSE IF fail # "none" THEN Result(ErrBackend, {}, x)
    ELSE Result(ErrNil, {},
                [x EXCEPT !.wLeaf = @ \cup {[tree |-> x.treeID, key |-> keyHash,
                                             rev |-> x.writeRevision, data |-> flat.b]}])

Set(x, keyHash, value, fail) ==
    LET flat == protoMarshal(value) IN
    IF flat.err THEN Result(ErrNil, {}, x)
    ELSE IF fail # "none" THEN Result(ErrBackend, {}, x)
    ELSE Result(ErrNil, {},
                [x EXCEPT !.wLeaf = @ \cup {[tree |-> x.treeID, key |-> keyHash,
                                             rev |-> x.writeRevision, data |-> flat.b]}])

Get(x, revision, indexes, fail) ==
    IF indexes = {} THEN Result(ErrNil, {}, x)
    ELSE IF fail # "none" THEN Result(ErrBackend, {}, x)
    ELSE LET rows == selectMapLeafSQL(VisibleLeaf(x), x.treeID, indexes, revision)
             x1 == [x EXCEPT !.view = ReadView(x)]
         IN IF \E r \in rows : unmarshalMapLeaf(r.data, r.key).err
            THEN Result(ErrCodec, {}, x1)
            ELSE Result(ErrNil, {unmarshalMapLeaf(r.data, r.key).leaf : r \in rows}, x1)

\* GetSignedMapRoot without the needs-init reading of a failed lookup at
\* revision 0.
GetSignedMapRootPlainError(x, revision, fail, pick) ==
    IF fail = "prepare" THEN Result(ErrBackend, {}, x)
    ELSE LET rows == selectGetSignedMapRootSQL(VisibleHead(x), x.treeID, revision)
             x1 == IF fail = "none" THEN [x EXCEPT !.view = ReadView(x)] ELSE x
             err == IF fail # "none" THEN ErrBackend
                    ELSE IF rows = {} THEN ErrNoRows ELSE ErrNil
         IN IF err # ErrNil
            THEN Result(err, {}, x1)
            ELSE Result(ErrNil, {signedMapRoot(pick)}, [x1 EXCEPT !.readRevision = pick.rev])

GetSignedMapRoot(x, revision, fail, pick) ==
    IF fail = "prepare" THEN Result(ErrBackend, {}, x)
    ELSE LET rows == selectGetSignedMapRootSQL(VisibleHead(x), x.treeID, revision)
             x1 == IF fail = "none" THEN [x EXCEPT !.view = ReadView(x)] ELSE x
             err == IF fail # "none" THEN ErrBackend
                    ELSE IF rows = {} THEN ErrNoRows ELSE ErrNil
         IN IF err # ErrNil
            THEN IF revision = 0
                 THEN Result(ErrTreeNeedsInit, {}, x1)
                 ELSE Result(err, {}, x1)
            ELSE Result(ErrNil, {signedMapRoot(pick)}, [x1 EXCEPT !.readRevision = pick.rev])

LatestSignedMapRoot(x, fail, pick) ==
    IF fail = "prepare" THEN Result(ErrBackend, {}, x)
    ELSE LET rows == selectLatestSignedMapRootSQL(VisibleHead(x), x.treeID)
             x1 == IF fail = "none" THEN [x EXCEPT !.view = ReadView(x)] ELSE x
             err == IF fail # "none" THEN ErrBackend
                    ELSE IF rows = {} THEN ErrNoRows ELSE ErrNil
         IN IF err = ErrNoRows THEN Result(ErrTreeNeedsInit, {}, x1)
            ELSE IF err # ErrNil THEN Result(err, {}, x1)
            ELSE Result(ErrNil, {signedMapRoot(pick)}, [x1 EXCEPT !.readRevision = pick.rev])

\* MapHead is unique on (TreeId, MapRevision): the INSERT fails on a row of the
\* committed table, or of this transaction, with the same pair.
DuplicateHead(x, rev) ==
    \E r \in mapHead \cup x.wHead : r.tree = x.treeID /\ r.rev = rev

\* checkResultOkAndRowCountIs(res, err, 1): the error of the statement, else an
\* error unless exactly one row was affected.
checkResultOkAndRowCountIs(rowsAffected, err, want) ==
    IF err # ErrNil THEN err
    ELSE IF rowsAffected # want THEN ErrBackend
    ELSE ErrNil

\* StoreSignedMapRoot with a statement that replaces the row of a duplicate
\* key (REPLACE INTO) instead of failing on it.
StoreSignedMapRootReplace(x, root, fail) ==
    LET r == UnmarshalBinary(root.MapRoot) IN
    IF r.err THEN Result(ErrCodec, {}, x)
    ELSE IF fail # "none" THEN Result(ErrBackend, {}, x)
    ELSE LET row == [tree |-> x.treeID, ts |-> r.ts, rev |-> r.rev]
             kept == {h \in x.wHead : ~(h.tree = row.tree /\ h.rev = row.rev)}
         IN Result(ErrNil, {row}, [x EXCEPT !.wHead = kept \cup {row}])

StoreSignedMapRoot(x, root, fail) ==
    LET r == UnmarshalBinary(root.MapRoot) IN
    IF r.err THEN Result(ErrCodec, {}, x)
    ELSE IF fail = "prepare" THEN Result(ErrBackend, {}, x)
    ELSE LET err == IF fail # "none" THEN ErrBackend
                    ELSE IF DuplicateHead(x, r.rev) THEN ErrDuplicate ELSE ErrNil
             row == [tree |-> x.treeID, ts |-> r.ts, rev |-> r.rev]
             res == checkResultOkAndRowCountIs(IF err = ErrNil THEN 1 ELSE 0, err, 1)
         IN IF res # ErrNil
            THEN Result(res, {}, x)
            ELSE Result(ErrNil, {row}, [x EXCEPT !.wHead = @ \cup {row}])

\* ---------------------------------------------------------------- tiles
TileIDs == {1, 2}

\* A tile handed to SetTiles: its root node id, and whether convert.Marshal
\* accepts it.
Tiles == [ID : TileIDs, ok : BOOLEAN]

TileLists == {<<>>} \cup {<<a>> : a \in Tiles} \cup {<<a, b>> : a \in Tiles, b \in Tiles}

\* getSubtreesWithLock: for each node id its row at the greatest revision that
\* is at most the requested one.
getSubtreesWithLock(rows, treeID, rev, ids) ==
    {r \in rows : r.tree = treeID /\ r.id \in ids /\ r.rev <= rev /\
                  \A s \in rows : (s.tree = treeID /\ s.id = r.id /\ s.rev <= rev)
                                      => s.rev <= r.rev}

\* GetTiles reporting a node id that has no stored tile as not found.
GetTilesNotFound(x, rev, ids, fail) ==
    IF fail # "none" THEN Result(ErrBackend, {}, x)
    ELSE LET subs == getSubtreesWithLock(VisibleSubtree(x), x.treeID, rev, ids)
         IN IF {r.id : r \in subs} # ids
            THEN Result(ErrNoRows, {}, [x EXCEPT !.view = ReadView(x)])
            ELSE Result(ErrNil, {[ID |-> r.id, rev |-> r.rev] : r \in subs},
                        [x EXCEPT !.view = ReadView(x)])

GetTiles(x, rev, ids, fail) ==
    IF fail # "none" THEN Result(ErrBackend, {}, x)
    ELSE LET subs == getSubtreesWithLock(VisibleSubtree(x), x.treeID, rev, ids)
         IN Result(ErrNil, {[ID |-> r.id, rev |-> r.rev] : r \in subs},
                   [x EXCEPT !.view = ReadView(x)])

\* SetTiles: every tile is encoded first; addSubtrees stages them only once
\* all of them encoded.
SetTiles(x, tiles) ==
    IF \E i \in 1..Len(tiles) : ~tiles[i].ok
    THEN Result(ErrCodec, {}, x)
    ELSE Result(ErrNil, {}, [x EXCEPT !.staged = @ \cup {tiles[i].ID : i \in 1..Len(tiles)}])

\* ---------------------------------------------------------------- factory
\* The tree descriptors a caller hands to the factory.
ValidTree(id) ==
    [TreeId |-> id, UpdateTime |-> TRUE, TreeType |-> "MAP",
     HashStrategy |-> "TEST_MAP_HASHER"]

Trees ==
    {ValidTree(id) : id \in TreeIds} \cup
    {[ValidTree(1) EXCEPT !.UpdateTime = FALSE],
     [ValidTree(1) EXCEPT !.TreeType = "LOG"],
     [ValidTree(1) EXCEPT !.HashStrategy = "UNKNOWN_HASH_STRATEGY"]}

BeginFails == Fails \cup {"begin"}

\* What begin returns: the error, the transaction (NilTx stands for nil),
\* and whether it opened a database transaction handle on the way.
BeginResult(err, mtx, opened) == [err |-> err, mtx |-> mtx, opened |-> opened]

\* begin writing at the revision it read instead of the next one.
beginAtReadRevision(tree, readonly, fail, pick) ==
    IF ~tree.UpdateTime THEN BeginResult(ErrUsage, NilTx, FALSE)
    ELSE IF tree.TreeType # "MAP" THEN BeginResult(ErrUsage, NilTx, FALSE)
    ELSE IF tree.HashStrategy # "TEST_MAP_HASHER" THEN BeginResult(ErrUsage, NilTx, FALSE)
    ELSE IF fail = "begin" THEN BeginResult(ErrBackend, NilTx, FALSE)
    ELSE LET mtx == [beginTreeTx(tree.TreeId) EXCEPT !.ro = readonly, !.readRevision = -1] IN
         IF readonly THEN BeginResult(ErrNil, mtx, TRUE)
         ELSE LET r == LatestSignedMapRoot(mtx, fail, pick) IN
              IF r.err # ErrNil /\ r.err # ErrTreeNeedsInit
              THEN BeginResult(r.err, NilTx, TRUE)
              ELSE IF r.err = ErrTreeNeedsInit
              THEN BeginResult(r.err, r.tx, TRUE)
              ELSE LET mr == UnmarshalBinary(signedMapRoot(pick).MapRoot) IN
                   IF mr.err THEN BeginResult(ErrCodec, NilTx, TRUE)
                   ELSE BeginResult(ErrNil,
                                    [r.tx EXCEPT !.readRevision = mr.rev,
                                                 !.writeRevision = mr.rev],
                                    TRUE)

\* begin handing no transaction to the caller when the tree needs init.
beginFailsOnNeedsInit(tree, readonly, fail, pick) ==
    IF ~tree.UpdateTime THEN BeginResult(ErrUsage, NilTx, FALSE)
    ELSE IF tree.TreeType # "MAP" THEN BeginResult(ErrUsage, NilTx, FALSE)
    ELSE IF tree.HashStrategy # "TEST_MAP_HASHER" THEN BeginResult(ErrUsage, NilTx, FALSE)
    ELSE IF fail = "begin" THEN BeginResult(ErrBackend, NilTx, FALSE)
    ELSE LET mtx == [beginTreeTx(tree.TreeId) EXCEPT !.ro = readonly, !.readRevision = -1] IN
         IF readonly THEN BeginResult(ErrNil, mtx, TRUE)
         ELSE LET r == LatestSignedMapRoot(mtx, fail, pick) IN
              IF r.err # ErrNil
              THEN BeginResult(r.err, NilTx, TRUE)
              ELSE LET mr == UnmarshalBinary(signedMapRoot(pick).MapRoot) IN
                   IF mr.err THEN BeginResult(ErrCodec, NilTx, TRUE)
                   ELSE BeginResult(ErrNil,
                                    [r.tx EXCEPT !.readRevision = mr.rev,
                                                 !.writeRevision = mr.rev + 1],
                                    TRUE)

begin(tree, readonly, fail, pick) ==
    IF ~tree.UpdateTime THEN BeginResult(ErrUsage, NilTx, FALSE)
    ELSE IF tree.TreeType # "MAP" THEN BeginResult(ErrUsage, NilTx, FALSE)
    ELSE IF tree.HashStrategy # "TEST_MAP_HASHER" THEN BeginResult(ErrUsage, NilTx, FALSE)
    ELSE IF fail = "begin" THEN BeginResult(ErrBackend, NilTx, FALSE)
    ELSE LET mtx == [beginTreeTx(tree.TreeId) EXCEPT !.ro = readonly, !.readRevision = -1] IN
         IF readonly THEN BeginResult(ErrNil, mtx, TRUE)
         ELSE LET r == LatestSignedMapRoot(mtx, fail, pick) IN
              IF r.err # ErrNil /\ r.err # ErrTreeNeedsInit
              THEN BeginResult(r.err, NilTx, TRUE)
              ELSE IF r.err = ErrTreeNeedsInit
              THEN BeginResult(r.err, r.tx, TRUE)
              ELSE LET mr == UnmarshalBinary(signedMapRoot(pick).MapRoot) IN
                   IF mr.err THEN BeginResult(ErrCodec, NilTx, TRUE)
                   ELSE BeginResult(ErrNil,
                                    [r.tx EXCEPT !.readRevision = mr.rev,
                                                 !.writeRevision = mr.rev + 1],
                                    TRUE)

\* The rows the latest-root lookup of begin may get on the tree.
BeginChoices(tree) ==
    RowChoices(selectLatestSignedMapRootSQL(mapHead, tree.TreeId))

\* treeTX.Commit: the staged subtrees are written at the write revision, then
\* the database transaction commits, publishing every row it wrote.
CommitSubtrees(x) == {[tree |-> x.treeID, id |-> i, rev |-> x.writeRevision] : i \in x.staged}

\* ---------------------------------------------------------------- actions
Last(op, t, rev, keys, err, ret) ==
    [op |-> op, t |-> t, rev |-> rev, keys |-> keys, err |-> err, ret |-> ret]

\* The goroutines that call into one transaction, and a goroutine with no
\* call in progress: op is the method it is in, pc its position in it, locked
\* whether it holds m.treeTX.mu of transaction t, arg and res the tiles and the
\* result it carries between two positions.
Goroutines == {1, 2}

NoCall ==
    [op |-> "idle", pc |-> "idle", t |-> 0, locked |-> FALSE, arg |-> <<>>,
     res |-> [rev |-> 0, keys |-> {}, r |-> Result(ErrNil, {}, NilTx)]]

Init ==
    /\ mapHead = {}
    /\ mapLeaf = {}
    /\ subtree = {}
    /\ tx = [t \in Txs |-> NilTx]
    /\ last = Last("init", 0, 0, {}, ErrNil, {})
    /\ calls = [g \in Goroutines |-> NoCall]

CanBegin(t) == tx[t].st = "none"
CanCall(t) == tx[t].st = "open" /\ tx[t].nops < MaxOps
CanWrite(t) == CanCall(t) /\ ~tx[t].ro

\* The call op on transaction t returned r.
Returned(t, op, rev, keys, r) ==
    /\ tx' = [tx EXCEPT ![t] = IF r.tx = tx[t] THEN r.tx
                                ELSE [r.tx EXCEPT !.nops = @ + 1]]
    /\ last' = Last(op, t, rev, keys, r.err, r.ret)
    /\ UNCHANGED <<mapHead, mapLeaf, subtree>>

\* The same, for a caller that makes its calls one after the other.
Called(t, op, rev, keys, r) ==
    /\ Returned(t, op, rev, keys, r)
    /\ UNCHANGED calls

\* The factory call op returned r to the caller of slot t.
Begun(t, op, tree, r) ==
    /\ tx' = [tx EXCEPT ![t] = IF r.mtx.st = "open" THEN r.mtx
                                ELSE IF r.opened THEN [NilTx EXCEPT !.st = "leaked"]
                                ELSE tx[t]]
    /\ last' = Last(op, t, tree.TreeId, {}, r.err, {})
    /\ UNCHANGED <<mapHead, mapLeaf, subtree, calls>>

SnapshotForTreeStep(t, trees) ==
    /\ CanBegin(t)
    /\ \E tree \in trees, fail \in {"none", "begin"} :
          Begun(t, "SnapshotForTree", tree, begin(tree, TRUE, fail, NoRow))

\* ReadWriteTransaction up to the call of f: begin, and the deferred Close
\* registered when begin returned a transaction.
ReadWriteTransactionStep(t, trees) ==
    /\ CanBegin(t)
    /\ \E tree \in trees, fail \in BeginFails :
          \E pick \in BeginChoices(tree) :
             Begun(t, "ReadWriteTransaction", tree, begin(tree, FALSE, fail, pick))

\* ReadWriteTransaction calling Commit whatever f returned.
ReadWriteTransactionReturnAlways(t) ==
    /\ tx[t].st = "open" /\ ~tx[t].ro
    /\ \E fErr \in BOOLEAN, fail \in {"none", "exec"} :
          LET committed == fail = "none" IN
          /\ mapHead' = IF committed THEN mapHead \cup tx[t].wHead ELSE mapHead
          /\ mapLeaf' = IF committed THEN mapLeaf \cup tx[t].wLeaf ELSE mapLeaf
          /\ subtree' = IF committed THEN subtree \cup CommitSubtrees(tx[t]) ELSE subtree
          /\ last' = Last("Commit", t, 0, {},
                          IF fErr THEN "f" ELSE IF fail # "none" THEN ErrBackend ELSE ErrNil, {})
    /\ tx' = [tx EXCEPT ![t] = [NilTx EXCEPT !.st = "done"]]
    /\ UNCHANGED calls

\* ReadWriteTransaction from the return of f: an error of f is returned and the
\* deferred Close rolls the transaction back; otherwise Commit, then Close.
ReadWriteTransactionReturn(t) ==
    /\ tx[t].st = "open" /\ ~tx[t].ro
    /\ \E fErr \in BOOLEAN, fail \in {"none", "exec"} :
          LET committed == ~fErr /\ fail = "none" IN
          /\ mapHead' = IF committed THEN mapHead \cup tx[t].wHead ELSE mapHead
          /\ mapLeaf' = IF committed THEN mapLeaf \cup tx[t].wLeaf ELSE mapLeaf
          /\ subtree' = IF committed THEN subtree \cup CommitSubtrees(tx[t]) ELSE subtree
          /\ last' = Last("Commit", t, 0, {},
                          IF fErr THEN "f" ELSE IF fail # "none" THEN ErrBackend ELSE ErrNil, {})
    /\ tx' = [tx EXCEPT ![t] = [NilTx EXCEPT !.st = "done"]]
    /\ UNCHANGED calls

\* Commit or Close of a snapshot by its caller.
SnapshotDone(t) ==
    /\ tx[t].st = "open" /\ tx[t].ro
    /\ tx' = [tx EXCEPT ![t] = [NilTx EXCEPT !.st = "done"]]
    /\ last' = Last("Close", t, 0, {}, ErrNil, {})
    /\ UNCHANGED <<mapHead, mapLeaf, subtree, calls>>

ReadRevisionStep(t) ==
    /\ CanCall(t)
    /\ Called(t, "ReadRevision", 0, {}, ReadRevision(tx[t]))

WriteRevisionStep(t) ==
    /\ CanCall(t)
    /\ Called(t, "WriteRevision", 0, {}, WriteRevision(tx[t]))

\* Set returns an error only: the call is recorded with the leaf it was given.
SetStep(t, keys, values) ==
    /\ CanWrite(t)
    /\ \E keyHash \in keys, value \in values, fail \in {"none", "exec"} :
          Called(t, "Set", 0, {keyHash},
                 [Set(tx[t], keyHash, value, fail) EXCEPT !.ret = {value}])

GetStep(t, keys) ==
    /\ CanCall(t)
    /\ \E revision \in ReadRevisions, indexes \in SUBSET keys, fail \in {"none", "exec"} :
          Called(t, "Get", revision, indexes, Get(tx[t], revision, indexes, fail))

GetTilesStep(t, revs) ==
    /\ CanCall(t)
    /\ \E rev \in revs, ids \in SUBSET TileIDs, fail \in {"none", "exec"} :
          Called(t, "GetTiles", rev, ids, GetTiles(tx[t], rev, ids, fail))

\* The position of the first tile convert.Marshal rejects (0: it accepts all),
\* and the ids of the tiles the loop of SetTiles appended to subs.
FirstRejected(tiles) ==
    IF \E i \in 1..Len(tiles) : ~tiles[i].ok
    THEN CHOOSE i \in 1..Len(tiles) : ~tiles[i].ok /\ \A j \in 1..(i - 1) : tiles[j].ok
    ELSE 0

Encoded(tiles) ==
    {tiles[j].ID : j \in 1..(IF FirstRejected(tiles) = 0 THEN Len(tiles)
                                                         ELSE FirstRejected(tiles) - 1)}

\* The call is recorded with the position of the rejected tile and the ids of
\* the tiles encoded before it.
SetTilesStep(t, lists) ==
    /\ CanWrite(t)
    /\ \E tiles \in lists :
          Called(t, "SetTiles", FirstRejected(tiles), Encoded(tiles), SetTiles(tx[t], tiles))

GetSignedMapRootStep(t) ==
    /\ CanCall(t)
    /\ \E revision \in Revisions, fail \in Fails :
          \E pick \in RowChoices(selectGetSignedMapRootSQL(VisibleHead(tx[t]),
                                                           tx[t].treeID, revision)) :
             Called(t, "GetSignedMapRoot", revision, {},
                    GetSignedMapRoot(tx[t], revision, fail, pick))

LatestSignedMapRootStep(t) ==
    /\ CanCall(t)
    /\ \E fail \in Fails :
          \E pick \in RowChoices(selectLatestSignedMapRootSQL(VisibleHead(tx[t]),
                                                              tx[t].treeID)) :
             Called(t, "LatestSignedMapRoot", 0, {},
                    LatestSignedMapRoot(tx[t], fail, pick))

\* InnoDB makes an INSERT wait while another open transaction holds an
\* uncommitted row with the same unique key.
InsertWaits(t, root) ==
    \E u \in Txs \ {t} :
        /\ tx[u].st = "open"
        /\ \E r \in tx[u].wHead : r.tree = tx[t].treeID /\ r.rev = UnmarshalBinary(root).rev

StoreSignedMapRootStep(t, roots) ==
    /\ CanWrite(t)
    /\ \E MapRoot \in roots, fail \in {"none", "exec"} :
          /\ ~InsertWaits(t, MapRoot)
          /\ Called(t, "StoreSignedMapRoot", UnmarshalBinary(MapRoot).rev, {},
                    StoreSignedMapRoot(tx[t], [MapRoot |-> MapRoot], fail))

\* ---------------------------------------------------------------- specifications
\* Every operation, on every input.
Next ==
    \E t \in Txs :
        \/ SnapshotForTreeStep(t, Trees)
        \/ ReadWriteTransactionStep(t, Trees)
        \/ ReadWriteTransactionReturn(t)
        \/ SnapshotDone(t)
        \/ ReadRevisionStep(t)
        \/ WriteRevisionStep(t)
        \/ SetStep(t, KeyHashes, MapLeafValues)
        \/ GetStep(t, KeyHashes)
        \/ GetTilesStep(t, ReadRevisions)
        \/ SetTilesStep(t, TileLists)
        \/ GetSignedMapRootStep(t)
        \/ LatestSignedMapRootStep(t)
        \/ StoreSignedMapRootStep(t, MapRoots)

Spec == Init /\ [][Next]_vars

\* Callers that work on the signed roots and the revisions of their
\* transactions, on every tree.
NextRoot ==
    \E t \in Txs :
        \/ SnapshotForTreeStep(t, Trees)
        \/ ReadWriteTransactionStep(t, Trees)
        \/ ReadWriteTransactionReturn(t)
        \/ SnapshotDone(t)
        \/ ReadRevisionStep(t)
        \/ WriteRevisionStep(t)
        \/ GetSignedMapRootStep(t)
        \/ LatestSignedMapRootStep(t)
        \/ StoreSignedMapRootStep(t, MapRoots)

SpecRoot == Init /\ [][NextRoot]_vars

\* Callers that write and read the leaves of one tree, publishing each
\* revision with a root of timestamp 1.
LeafRoots == {MarshalBinary([ts |-> 1, rev |-> rev]) : rev \in Revisions}

NextLeaf ==
    \E t \in Txs :
        \/ SnapshotForTreeStep(t, {ValidTree(1)})
        \/ ReadWriteTransactionStep(t, {ValidTree(1)})
        \/ ReadWriteTransactionReturn(t)
        \/ SnapshotDone(t)
        \/ WriteRevisionStep(t)
        \/ SetStep(t, KeyHashes, MapLeafValues)
        \/ GetStep(t, KeyHashes)
        \/ StoreSignedMapRootStep(t, LeafRoots)

SpecLeaf == Init /\ [][NextLeaf]_vars

\* Callers that write leaves, tiles and roots of one tree and read its tiles.
WriteLeaves == {v \in MapLeafValues : v.isNil \/ v.LeafValue # 0}

\* The tile lists of these callers: each tile encodes, or the last one does not.
WriteTiles == {tiles \in TileLists : \A i \in 1..(Len(tiles) - 1) : tiles[i].ok}

NextWrite ==
    \E t \in Txs :
        \/ SnapshotForTreeStep(t, {ValidTree(1)})
        \/ ReadWriteTransactionStep(t, {ValidTree(1)})
        \/ ReadWriteTransactionReturn(t)
        \/ SnapshotDone(t)
        \/ SetStep(t, {1}, WriteLeaves)
        \/ SetTilesStep(t, WriteTiles)
        \/ GetTilesStep(t, {-2, 0})
        \/ StoreSignedMapRootStep(t, LeafRoots)

SpecWrite == Init /\ [][NextWrite]_vars

\* A tree that was initialised: the store as a needs-init ReadWriteTransaction
\* leaves it when its f stored the root of revision 0 and returned nil.
InitPublished ==
    /\ mapHead = {[tree |-> 1, ts |-> 1, rev |-> 0]}
    /\ mapLeaf = {}
    /\ subtree = {}
    /\ tx = [t \in Txs |-> NilTx]
    /\ last = Last("init", 0, 0, {}, ErrNil, {})
    /\ calls = [g \in Goroutines |-> NoCall]

\* Writers and readers of that tree, each leaf with a value.
NextPublished ==
    \E t \in Txs :
        \/ SnapshotForTreeStep(t, {ValidTree(1)})
        \/ ReadWriteTransactionStep(t, {ValidTree(1)})
        \/ ReadWriteTransactionReturn(t)
        \/ SnapshotDone(t)
        \/ SetStep(t, KeyHashes, {v \in MapLeafValues : v.LeafValue # 0})
        \/ SetTilesStep(t, {tiles \in TileLists : Len(tiles) = 1})
        \/ GetStep(t, KeyHashes)
        \/ StoreSignedMapRootStep(t, LeafRoots)

SpecPublished == InitPublished /\ [][NextPublished]_vars

\* ---------------------------------------------------------------- goroutines
\* The calls of several goroutines on one transaction, step by step: where a
\* method takes m.treeTX.mu, where it works on the transaction, and where it
\* releases the mutex.

\* m.treeTX.mu of transaction t is not held.
MutexFree(t) == \A g \in Goroutines : ~(calls[g].t = t /\ calls[g].locked)

\* The methods whose first statement is m.treeTX.mu.Lock(), with the unlock
\* deferred to their return.
LockedOps ==
    {"ReadRevision", "WriteRevision", "Set", "Get",
     "GetSignedMapRoot", "LatestSignedMapRoot", "StoreSignedMapRoot"}

\* What a locked method does to transaction x, for each input of the callers.
Outcome(rev, keys, r) == [rev |-> rev, keys |-> keys, r |-> r]

Outcomes(op, x) ==
    CASE op = "ReadRevision" -> {Outcome(0, {}, ReadRevision(x))}
      [] op = "WriteRevision" -> {Outcome(0, {}, WriteRevision(x))}
      [] op = "Set" -> {Outcome(0, {1}, Set(x, 1, value, "none")) : value \in WriteLeaves}
      [] op = "Get" -> {Outcome(revision, {1}, Get(x, revision, {1}, "none")) :
                            revision \in Revisions}
      [] op = "GetSignedMapRoot" ->
            UNION {{Outcome(revision, {}, GetSignedMapRoot(x, revision, "none", pick)) :
                        pick \in RowChoices(selectGetSignedMapRootSQL(VisibleHead(x),
                                                                     x.treeID, revision))} :
                      revision \in Revisions}
      [] op = "LatestSignedMapRoot" ->
            {Outcome(0, {}, LatestSignedMapRoot(x, "none", pick)) :
                pick \in RowChoices(selectLatestSignedMapRootSQL(VisibleHead(x), x.treeID))}
      [] op = "StoreSignedMapRoot" ->
            {Outcome(UnmarshalBinary(MapRoot).rev, {},
                     StoreSignedMapRoot(x, [MapRoot |-> MapRoot], "none")) :
                MapRoot \in LeafRoots}

\* Goroutine g enters a locked method of transaction t: it gets the mutex.
LockStep(g, t) ==
    /\ calls[g] = NoCall
    /\ CanWrite(t)
    /\ MutexFree(t)
    /\ \E op \in LockedOps :
          calls' = [calls EXCEPT ![g] = [NoCall EXCEPT !.op = op, !.pc = "body",
                                                       !.t = t, !.locked = TRUE]]
    /\ UNCHANGED <<mapHead, mapLeaf, subtree, tx, last>>

\* The body of the locked method and its return, which releases the mutex.
BodyStep(g) ==
    /\ calls[g].pc = "body"
    /\ \E o \in Outcomes(calls[g].op, tx[calls[g].t]) :
          Returned(calls[g].t, calls[g].op, o.rev, o.keys, o.r)
    /\ calls' = [calls EXCEPT ![g] = NoCall]

\* SetTiles: goroutine g enters it and is in the loop that encodes the tiles;
\* the method itself takes no mutex.
SetTilesEnter(g, t) ==
    /\ calls[g] = NoCall
    /\ CanWrite(t)
    /\ \E tiles \in TileLists :
          calls' = [calls EXCEPT ![g] = [NoCall EXCEPT !.op = "SetTiles", !.pc = "encode",
                                                       !.t = t, !.arg = tiles]]
    /\ UNCHANGED <<mapHead, mapLeaf, subtree, tx, last>>

\* The loop ends: with the error of convert.Marshal, or at the call of addSubtrees.
SetTilesEncode(g) ==
    /\ calls[g].pc = "encode"
    /\ IF FirstRejected(calls[g].arg) # 0
       THEN /\ Returned(calls[g].t, "SetTiles", FirstRejected(calls[g].arg),
                        Encoded(calls[g].arg), SetTiles(tx[calls[g].t], calls[g].arg))
            /\ calls' = [calls EXCEPT ![g] = NoCall]
       ELSE /\ calls' = [calls EXCEPT ![g].pc = "addSubtrees"]
            /\ UNCHANGED <<mapHead, mapLeaf, subtree, tx, last>>

\* addSubtrees takes the mutex of the base transaction.
AddSubtreesLock(g) ==
    /\ calls[g].pc = "addSubtrees"
    /\ MutexFree(calls[g].t)
    /\ calls' = [calls EXCEPT ![g].pc = "stage", ![g].locked = TRUE]
    /\ UNCHANGED <<mapHead, mapLeaf, subtree, tx, last>>

\* addSubtrees stages the tiles and releases the mutex; SetTiles returns nil.
AddSubtreesStage(g) ==
    /\ calls[g].pc = "stage"
    /\ Returned(calls[g].t, "SetTiles", 0, Encoded(calls[g].arg),
                SetTiles(tx[calls[g].t], calls[g].arg))
    /\ calls' = [calls EXCEPT ![g] = NoCall]

\* GetTiles: goroutine g enters it and converts the node ids; the method
\* itself takes no mutex.
GetTilesEnter(g, t) ==
    /\ calls[g] = NoCall
    /\ CanWrite(t)
    /\ calls' = [calls EXCEPT ![g] = [NoCall EXCEPT !.op = "GetTiles", !.pc = "ids", !.t = t]]
    /\ UNCHANGED <<mapHead, mapLeaf, subtree, tx, last>>

\* getSubtreesWithLock takes the mutex of the base transaction.
GetSubtreesLock(g) ==
    /\ calls[g].pc = "ids"
    /\ MutexFree(calls[g].t)
    /\ calls' = [calls EXCEPT ![g].pc = "getSubtrees", ![g].locked = TRUE]
    /\ UNCHANGED <<mapHead, mapLeaf, subtree, tx, last>>

\* getSubtreesWithLock reads the subtrees and releases the mutex.
GetSubtreesRead(g) ==
    /\ calls[g].pc = "getSubtrees"
    /\ \E rev \in Revisions, ids \in SUBSET {1}, fail \in {"none", "exec"} :
          LET t == calls[g].t
              r == GetTiles(tx[t], rev, ids, fail)
          IN /\ tx' = [tx EXCEPT ![t] = IF r.tx = tx[t] THEN r.tx
                                         ELSE [r.tx EXCEPT !.nops = @ + 1]]
             /\ calls' = [calls EXCEPT ![g].pc = "unmarshal", ![g].locked = FALSE,
                                        ![g].res = Outcome(rev, ids, r)]
    /\ UNCHANGED <<mapHead, mapLeaf, subtree, last>>

\* The loop that decodes the subtrees, and the return of GetTiles.
GetTilesReturn(g) ==
    /\ calls[g].pc = "unmarshal"
    /\ last' = Last("GetTiles", calls[g].t, calls[g].res.rev, calls[g].res.keys,
                    calls[g].res.r.err, calls[g].res.r.ret)
    /\ calls' = [calls EXCEPT ![g] = NoCall]
    /\ UNCHANGED <<mapHead, mapLeaf, subtree, tx>>

\* The function f of one ReadWriteTransaction calling the methods of its
\* transaction from several goroutines.
NextMutex ==
    \/ ReadWriteTransactionStep(1, {ValidTree(1)})
    \/ \E g \in Goroutines :
          \/ LockStep(g, 1)
          \/ BodyStep(g)
          \/ SetTilesEnter(g, 1)
          \/ SetTilesEncode(g)
          \/ AddSubtreesLock(g)
          \/ AddSubtreesStage(g)
          \/ GetTilesEnter(g, 1)
          \/ GetSubtreesLock(g)
          \/ GetSubtreesRead(g)
          \/ GetTilesReturn(g)

SpecMutex == Init /\ [][NextMutex]_vars

\* ---------------------------------------------------------------- properties
RootLookups == {"LatestSignedMapRoot", "GetSignedMapRoot"}

\* The roots of a tree among rows, and the greatest revision among them.
TreeHeads(rows, treeID) == {r \in rows : r.tree = treeID}
MaxRevision(rows) == CHOOSE m \in {r.rev : r \in rows} : \A r \in rows : r.rev <= m

\* The transaction the last call was made on, and the roots of its tree it sees.
LastTx == tx[last.t]
LastHeads == TreeHeads(VisibleHead(LastTx), LastTx.treeID)

\* C1: LatestSignedMapRoot returns the stored root of the tree with the
\* greatest revision, whatever the timestamps of the stored roots.
C1_LatestReturnsMaxRevision ==
    (last.op = "LatestSignedMapRoot" /\ last.err = ErrNil) =>
        \A root \in last.ret :
            UnmarshalBinary(root.MapRoot).rev = MaxRevision(LastHeads)

\* C2: Get(R, [K]) returns exactly one leaf, carrying the value written at the
\* greatest revision of K that is at most R, and an empty result with no error
\* when K has no row at or below R.
C2_GetPointInTime ==
    (last.op = "Get" /\ Cardinality(last.keys) = 1 /\ last.err # ErrBackend) =>
        LET x == LastTx
            rows == {r \in VisibleLeaf(x) :
                        r.tree = x.treeID /\ r.key \in last.keys /\ r.rev <= last.rev}
        IN IF rows = {}
           THEN last.err = ErrNil /\ last.ret = {}
           ELSE /\ last.err = ErrNil
                /\ Cardinality(last.ret) = 1
                /\ \A leaf \in last.ret :
                      \E r \in rows :
                         /\ r.rev = MaxRevision(rows)
                         /\ leaf.LeafValue = protoUnmarshal(r.data).LeafValue

\* C3: a committed leaf or tile row at revision R is there only together with
\* a committed root of its tree at revision R.
C3_RowsPublishedWithRoot ==
    /\ \A r \in mapLeaf : \E h \in mapHead : h.tree = r.tree /\ h.rev = r.rev
    /\ \A r \in subtree : \E h \in mapHead : h.tree = r.tree /\ h.rev = r.rev

\* C4: there is at most one root per (TreeId, Revision), committed or written
\* by an open transaction; a StoreSignedMapRoot for a pair that has a root
\* returns an error, and no stored root row is ever changed or removed.
C4_OneRootPerRevision ==
    \A t \in Txs :
        \A r1 \in mapHead \cup tx[t].wHead, r2 \in mapHead \cup tx[t].wHead :
            (r1.tree = r2.tree /\ r1.rev = r2.rev) => r1 = r2

C4_StoreStep ==
    \A t \in Txs :
        (last'.op = "StoreSignedMapRoot" /\ last'.t = t /\ tx[t].st = "open") =>
            /\ mapHead' = mapHead
            /\ tx[t].wHead \subseteq tx'[t].wHead
            /\ (\E r \in mapHead \cup tx[t].wHead :
                    r.tree = tx[t].treeID /\ r.rev = last'.rev)
                 => (last'.err # ErrNil /\ tx'[t].wHead = tx[t].wHead)

C4_RootImmutable ==
    /\ []C4_OneRootPerRevision
    /\ [][C4_StoreStep /\ mapHead \subseteq mapHead']_vars

C4_Witness ==
    /\ last.op = "StoreSignedMapRoot"
    /\ last.err = ErrDuplicate
    /\ \E r \in mapHead : r.tree = LastTx.treeID /\ r.rev = last.rev

\* C5: on a tree with no stored root LatestSignedMapRoot and
\* GetSignedMapRoot(0) return needs-init, and GetSignedMapRoot(N), N > 0,
\* returns the plain not-found error.
C5_NeedsInitDistinction ==
    (last.op \in RootLookups /\ last.err # ErrBackend /\ LastHeads = {}) =>
        /\ last.op = "LatestSignedMapRoot" => last.err = ErrTreeNeedsInit
        /\ (last.op = "GetSignedMapRoot" /\ last.rev = 0) => last.err = ErrTreeNeedsInit
        /\ (last.op = "GetSignedMapRoot" /\ last.rev > 0) => last.err = ErrNoRows

C5_Witness ==
    /\ last.op = "GetSignedMapRoot"
    /\ last.rev > 0
    /\ last.err = ErrNoRows
    /\ LastHeads = {}

\* C6: needs-init is returned by a root lookup only for a tree that has no
\* committed root (never for a tree with a root, so never for a failed query
\* on one).
C6_NeedsInitOnlyWithoutRoots ==
    (last.op \in RootLookups /\ last.err = ErrTreeNeedsInit) =>
        TreeHeads(ReadView(LastTx).mapHead, LastTx.treeID) = {}

\* C7: once a root lookup has set the read revision of a read-only
\* transaction, ReadRevision returns that value after every later call on it.
C7_ReadRevisionStep ==
    \A t \in Txs :
        (tx[t].st = "open" /\ tx[t].ro /\ tx[t].readRevision # -1 /\ tx'[t].st = "open")
            => ReadRevision(tx'[t]).ret = ReadRevision(tx[t]).ret

C7_ReadRevisionPinned == [][C7_ReadRevisionStep]_vars

\* C8: a read-write transaction opened on a tree whose latest stored root has
\* revision r is returned without error, with readRevision = r and
\* writeRevision = r + 1.
C8_BeginRevisions ==
    (last.op = "ReadWriteTransaction" /\ LastTx.st = "open"
        /\ TreeHeads(mapHead, LastTx.treeID) # {}) =>
        /\ last.err = ErrNil
        /\ LastTx.readRevision \in
              {r.rev : r \in selectLatestSignedMapRootSQL(mapHead, LastTx.treeID)}
        /\ LastTx.writeRevision = LastTx.readRevision + 1
        /\ WriteRevision(LastTx).ret = {LastTx.readRevision + 1}

C8_Witness ==
    /\ last.op = "ReadWriteTransaction"
    /\ LastTx.st = "open"
    /\ LastTx.readRevision = 1
    /\ LastTx.writeRevision = 2

\* C9: a read-write transaction opened on a tree with no root has write
\* revision 0, and the leaves written in it are inserted at revision 0.
C9_NeedsInitWritesAtZero ==
    /\ (last.op = "ReadWriteTransaction" /\ last.err = ErrTreeNeedsInit) =>
          (LastTx.st = "open" /\ LastTx.writeRevision = 0)
    /\ \A t \in Txs :
          (tx[t].st = "open" /\ ~tx[t].ro /\ tx[t].readRevision = -1) =>
              \A r \in tx[t].wLeaf : r.rev = 0

\* C10: WriteRevision returns an error exactly when the write revision slot is
\* negative, otherwise the slot's value and no error, and changes nothing.
C10_WriteRevisionResult ==
    last.op = "WriteRevision" =>
        /\ (last.err # ErrNil) <=> (LastTx.writeRevision < 0)
        /\ last.err = ErrNil => (last.ret = {LastTx.writeRevision} /\ LastTx.writeRevision >= 0)

C10_WriteRevision ==
    /\ []C10_WriteRevisionResult
    /\ [][last'.op = "WriteRevision" =>
            (tx' = tx /\ UNCHANGED <<mapHead, mapLeaf, subtree>>)]_vars

C10_Witness ==
    /\ last.op = "WriteRevision"
    /\ last.err = ErrNotPopulated
    /\ ~LastTx.ro

\* C11: ReadWriteTransaction commits exactly when opening succeeded or reported
\* needs-init and f returned nil: the committed tables change only by a Commit
\* that returned no error, which publishes every row of the transaction; when
\* opening fails otherwise no transaction is handed to f, and when f fails its
\* error is returned with the tables unchanged.
C11_Step ==
    /\ (mapHead' # mapHead \/ mapLeaf' # mapLeaf \/ subtree' # subtree)
          => (last'.op = "Commit" /\ last'.err = ErrNil)
    /\ \A t \in Txs :
          /\ (last'.op = "ReadWriteTransaction" /\ last'.t = t
                /\ last'.err \notin {ErrNil, ErrTreeNeedsInit})
               => (tx'[t].st # "open" /\ UNCHANGED <<mapHead, mapLeaf, subtree>>)
          /\ (last'.op = "ReadWriteTransaction" /\ last'.t = t
                /\ last'.err \in {ErrNil, ErrTreeNeedsInit})
               => tx'[t].st = "open"
          /\ (last'.op = "Commit" /\ last'.t = t /\ tx[t].st = "open" /\ last'.err = ErrNil)
               => /\ mapHead' = mapHead \cup tx[t].wHead
                  /\ mapLeaf' = mapLeaf \cup tx[t].wLeaf
                  /\ subtree' = subtree \cup CommitSubtrees(tx[t])
          /\ (last'.op = "Commit" /\ last'.t = t /\ tx[t].st = "open" /\ last'.err # ErrNil)
               => UNCHANGED <<mapHead, mapLeaf, subtree>>

C11_CommitIffNil == [][C11_Step]_vars

C11_Witness ==
    /\ last.op = "Commit"
    /\ last.err = "f"
    /\ mapLeaf # {}
    /\ subtree # {}

\* C12: every database transaction handle begin opened is released by the
\* time ReadWriteTransaction has returned, also when begin itself failed after
\* it opened the base transaction.
C12_HandlesReleased ==
    \A t \in Txs :
        (last.op = "ReadWriteTransaction" /\ last.t = t
            /\ last.err \notin {ErrNil, ErrTreeNeedsInit})
          => tx[t].st # "leaked"

\* C13: on a tree with no root ReadWriteTransaction reports needs-init and
\* still hands the transaction to f; when f stored a root at revision 0 and
\* returned nil, Commit publishes that root; and a transaction whose roots of
\* the tree are that revision-0 root gets it from LatestSignedMapRoot, with
\* its read revision set to 0.
C13_NeedsInitOpens ==
    (last.op = "ReadWriteTransaction" /\ TreeHeads(mapHead, last.rev) = {}
        /\ last.err \notin {ErrBackend, ErrUsage}) =>
        /\ last.err = ErrTreeNeedsInit
        /\ LastTx.st = "open"
        /\ ~LastTx.ro

C13_LatestAfterBootstrap ==
    (last.op = "LatestSignedMapRoot" /\ last.err # ErrBackend
        /\ LastHeads # {} /\ \A h \in LastHeads : h.rev = 0) =>
        /\ last.err = ErrNil
        /\ last.ret = {signedMapRoot(h) : h \in LastHeads}
        /\ \A root \in last.ret : UnmarshalBinary(root.MapRoot).rev = 0
        /\ ReadRevision(LastTx).ret = {0}

C13_CommitStep ==
    \A t \in Txs :
        (last'.op = "Commit" /\ last'.t = t /\ last'.err = ErrNil
            /\ tx[t].st = "open" /\ tx[t].readRevision = -1) =>
            \A h \in tx[t].wHead : h.rev = 0 => h \in mapHead'

C13_Bootstrap ==
    /\ []C13_NeedsInitOpens
    /\ []C13_LatestAfterBootstrap
    /\ [][C13_CommitStep]_vars

C13_Witness ==
    /\ last.op = "LatestSignedMapRoot"
    /\ last.err = ErrNil
    /\ ReadRevision(LastTx).ret = {0}
    /\ LastTx.wHead = {}
    /\ \E h \in mapHead : h.tree = LastTx.treeID /\ h.rev = 0 /\ LastHeads = {h}

\* C14: GetTiles returns a tile only for a node id that has a stored tile at or
\* below the requested revision; when none of the ids has one it returns an
\* empty result and no error, and so does the same call made again on the
\* transaction.
C14_StoredTiles(x, rev, ids) ==
    {r \in VisibleSubtree(x) : r.tree = x.treeID /\ r.id \in ids /\ r.rev <= rev}

C14_AbsentTilesOmitted ==
    (last.op = "GetTiles" /\ last.err # ErrBackend) =>
        /\ last.err = ErrNil
        /\ {tile.ID : tile \in last.ret} =
              {r.id : r \in C14_StoredTiles(LastTx, last.rev, last.keys)}
        /\ C14_StoredTiles(LastTx, last.rev, last.keys) = {} => last.ret = {}

\* The call made again on the transaction as the first call left it.
C14_Repeatable ==
    \A t \in Txs, rev \in ReadRevisions, ids \in SUBSET TileIDs :
        tx[t].st = "open" =>
            LET first == GetTiles(tx[t], rev, ids, "none")
                again == GetTiles(first.tx, rev, ids, "none")
            IN /\ again.err = first.err
               /\ again.ret = first.ret
               /\ again.tx = first.tx

C15_EarlierTilesStaged ==
    (last.op = "SetTiles" /\ last.err # ErrNil /\ last.rev > 1) =>
        last.keys \subseteq LastTx.staged

\* C16: a read-write transaction in which StoreSignedMapRoot returned a backend
\* error or a row-count error is not committed: the Commit of
\* ReadWriteTransaction is not reached or fails, and the tables stay as they are.
C16_Step ==
    \A t \in Txs :
        (/\ last.op = "StoreSignedMapRoot" /\ last.t = t
         /\ last.err \in {ErrBackend, ErrDuplicate}
         /\ last'.op = "Commit" /\ last'.t = t)
            => (last'.err # ErrNil /\ UNCHANGED <<mapHead, mapLeaf, subtree>>)

C16_FailedStoreAborts == [][C16_Step]_vars

\* C17: every root row StoreSignedMapRoot inserts has the write revision of
\* the transaction that inserts it; a root naming another revision is refused.
C17_RootAtWriteRevision ==
    /\ \A t \in Txs :
          tx[t].st = "open" => \A h \in tx[t].wHead : h.rev = tx[t].writeRevision
    /\ (last.op = "StoreSignedMapRoot" /\ last.rev # LastTx.writeRevision)
          => last.err # ErrNil

\* C18: a goroutine that is in an operation of a map transaction holds the
\* mutex of that transaction, so no other goroutine is working on the state
\* of the transaction at that time.
C18_MutexHeldThroughout ==
    \A g \in Goroutines :
        calls[g].op # "idle" =>
            /\ calls[g].locked
            /\ \A h \in Goroutines \ {g} : ~(calls[h].t = calls[g].t /\ calls[h].locked)

\* C19: a Set whose leaf value fails to serialize returns no error and
\* inserts no row: the transaction and the tables are as they were.
C19_Step ==
    \A t \in Txs :
        (/\ last'.op = "Set" /\ last'.t = t /\ tx[t].st = "open"
         /\ \E value \in last'.ret : protoMarshal(value).err)
            => /\ last'.err = ErrNil
               /\ tx'[t] = tx[t]
               /\ UNCHANGED <<mapHead, mapLeaf, subtree>>

C19_SetSwallowsMarshalError == [][C19_Step]_vars

C19_Witness ==
    /\ last.op = "Set"
    /\ last.err = ErrNil
    /\ \E value \in last.ret : protoMarshal(value).err
    /\ LastTx.st = "open"
    /\ \A r \in LastTx.wLeaf : r.key \notin last.keys

\* C20: every leaf row Set inserts carries the write revision of its
\* transaction, and that revision is established (not negative): there is no
\* leaf row, uncommitted or committed, at a negative revision.
C20_LeafAtEstablishedRevision ==
    /\ \A t \in Txs :
          tx[t].st = "open" =>
              \A r \in tx[t].wLeaf : r.rev = tx[t].writeRevision /\ r.rev >= 0
    /\ \A r \in mapLeaf : r.rev >= 0

\* C21: two read-write transactions open at the same time on a tree, both
\* opened at the latest root revision r, both have write revision r + 1; a
\* Commit publishes a root of revision r + 1 only when no transaction published
\* one since this one was opened; and it publishes leaves or tiles of revision
\* r + 1 only when no transaction published any since this one was opened.
C21_SameWriteRevision ==
    \A t \in Txs, u \in Txs :
        (/\ tx[t].st = "open" /\ ~tx[t].ro /\ tx[u].st = "open" /\ ~tx[u].ro
         /\ tx[t].treeID = tx[u].treeID
         /\ tx[t].readRevision >= 0 /\ tx[t].readRevision = tx[u].readRevision)
            => (tx[t].writeRevision = tx[t].readRevision + 1
                /\ tx[u].writeRevision = tx[t].writeRevision)

\* The rows of the tree of x at its write revision among rows, and those of
\* them that were committed after x took its read view.
C21_AtWriteRevision(rows, x) ==
    {r \in rows : r.tree = x.treeID /\ r.rev = x.writeRevision}

C21_Since(x) ==
    [heads |-> C21_AtWriteRevision(mapHead \ x.view.mapHead, x),
     rows |-> C21_AtWriteRevision(mapLeaf \ x.view.mapLeaf, x)
                \cup C21_AtWriteRevision(subtree \ x.view.subtree, x)]

C21_CommitStep ==
    \A t \in Txs :
        (/\ last'.op = "Commit" /\ last'.t = t /\ last'.err = ErrNil
         /\ tx[t].st = "open" /\ tx[t].writeRevision >= 0)
            => /\ C21_AtWriteRevision(tx[t].wHead, tx[t]) # {}
                    => C21_Since(tx[t]).heads = {}
               /\ C21_AtWriteRevision(tx[t].wLeaf \cup CommitSubtrees(tx[t]), tx[t]) # {}
                    => C21_Since(tx[t]).rows = {}

C21_OneWriterPerRevision ==
    /\ []C21_SameWriteRevision
    /\ [][C21_CommitStep]_vars

\* C22: no step changes or removes a committed leaf row, and once a root of
\* revision R is committed, Get(R', [K]) for R' <= R on the committed leaves
\* returns the same result after every step.
C22_Get(leaves, treeID, revision, keyHash) ==
    LET x == [beginTreeTx(treeID) EXCEPT
                 !.ro = TRUE,
                 !.view = [has |-> TRUE, mapHead |-> {}, mapLeaf |-> leaves, subtree |-> {}]]
        r == Get(x, revision, {keyHash}, "none")
    IN [err |-> r.err, ret |-> r.ret]

C22_AppendOnly == mapLeaf \subseteq mapLeaf'

C22_Step ==
    /\ C22_AppendOnly
    /\ \A h \in mapHead, revision \in ReadRevisions, keyHash \in KeyHashes :
          revision <= h.rev =>
              C22_Get(mapLeaf', h.tree, revision, keyHash)
                  = C22_Get(mapLeaf, h.tree, revision, keyHash)

C22_SnapshotsStable == [][C22_Step]_vars

====
